---- MODULE Spec2Model ----
(***************************************************************************)
(* One chat session of packages/core/svelte/use-chat.ts: the observables   *)
(* (messages, streamData, loading, error, input), the module-level store   *)
(* entry of the session's key, the session's abortController variable and  *)
(* the exchanges (calls of triggerRequest) that are suspended at an await. *)
(* JavaScript runs one task at a time, so every action below is one        *)
(* synchronous run: a call of the public API up to its first suspension,   *)
(* or the continuation of a suspended exchange after one transport event.  *)
(***************************************************************************)
EXTENDS Integers, Sequences, FiniteSets, TLC

\* ------------------------------------------------------------------ bounds
MaxExchanges == 2     \* calls of triggerRequest in one behaviour
MaxExtras == 1        \* in one behaviour, all together: exchanges started
                      \* while another is in flight, form submissions,
                      \* calls of setMessages, sessions constructed
                      \* again, data events and tool calls
MaxDeltas == 2        \* text deltas of one response, where they are free

\* --------------------------------------------------------------- constants
NULL == 0             \* the null of `abortController` / `abortControllerRef`

Exchanges == 1..MaxExchanges

NoError == "undefined"
AbortError == "AbortError"
\* What the transport raises besides an AbortError: a TransportError when the
\* request fails before any event has arrived, a ParseError on a malformed
\* chunk after at least one.
TransportError(received) ==
  IF received = 0 THEN "TransportError" ELSE "ParseError"
\* What the application's code throws: a tool hook an Error, a callback a
\* value that is no Error.
ToolExecutionError == "ToolExecutionError"
ThrownValue == "thrown string"

\* `err instanceof Error`
IsError(err) == err # ThrownValue

\* An optional value (T | undefined).
Undefined == [defined |-> FALSE, value |-> <<>>]
Some(v) == [defined |-> TRUE, value |-> v]
\* `x || []`
OrEmpty(x) == IF x.defined THEN x.value ELSE <<>>

\* The text deltas of a response, in the order the endpoint sends them.
TextDeltas == <<"Hel", "lo!">>
\* Any deltas in any order, up to MaxDeltas of them.
TextScripts ==
  UNION {[1..n -> {"Hel", "lo!"}] : n \in 0..MaxDeltas}
DataPayload == "d"
NoId == ""

Msg(id, role, content) ==
  [id |-> id, role |-> role, content |-> content, tool_calls |-> FALSE]

\* initialMessages and initialInput of the session.
InitialMessages == <<Msg("u0", "user", "Hi"), Msg("a0", "assistant", "Yo")>>
InitialInput == "Hi"

\* The lists a caller passes to setMessages.
MessageLists == {<<>>, <<Msg("u0", "user", "Hi")>>}

\* The message a caller passes to append (handleSubmit passes one without id).
AppendInputs == {Msg("m1", "user", "Hi")}

VARIABLES
  messages,           \* writable<Message[]>
  streamData,         \* writable<JSONValue[] | undefined>
  loading,            \* writable<boolean>
  error,              \* writable<undefined | Error>
  input,              \* writable<string>
  store,              \* store[key]
  abortController,    \* the session's `let abortController`
  aborted,            \* aborted[c]: controller c's signal is aborted
  nStarted,           \* calls of triggerRequest so far
  extrasLeft,         \* how many more of the events MaxExtras bounds may be
  pc,                 \* pc[e]: where exchange e is suspended
  round,              \* round[e]: the follow-up requests e has issued
  chatRequest,        \* chatRequest[e]: triggerRequest's `chatRequest.messages`
  previousMessages,   \* getStreamedResponse's argument of e's current request
  existingData,       \* likewise
  abortControllerRef, \* likewise
  merged,             \* response messages of e's current request so far
  sdata,              \* data payloads of e's current request so far
  nText,              \* text deltas of e's current request so far
  deltas,             \* the text deltas the endpoint sends, in order
  seenAtClear,        \* history: the messages when handleSubmit set the
                      \* input to the empty string last
  replaced,           \* history: the exchanges that were in flight at a
                      \* call of setMessages
  begun,              \* history: the messages just before e was started
  issued,             \* history: the messages just before e's current request
  last                \* history: the step taken last

vars == <<messages, streamData, loading, error, input, store, abortController,
          aborted, nStarted, extrasLeft, pc, round,
          chatRequest, previousMessages, existingData, abortControllerRef,
          merged, sdata, nText, deltas, seenAtClear, replaced,
          begun, issued, last>>

counters == <<nStarted, extrasLeft>>
\* What only handleSubmit and setMessages change, or nothing does.
script == <<deltas, seenAtClear, replaced>>
requestVars == <<round, chatRequest, previousMessages, existingData,
                 abortControllerRef, merged, sdata, nText, begun, issued>>

\* generateId(): an id no other call returns. The call is named by the
\* exchange and the request it serves and by what the id is for.
generateId(what, e) == what \o ToString(e) \o "." \o ToString(round[e])

InFlight == {e \in Exchanges : pc[e] \in {"streaming", "hook"}}

\* One more of the events MaxExtras bounds, if `counted`.
Extra(counted) ==
  /\ counted => extrasLeft > 0
  /\ extrasLeft' = IF counted THEN extrasLeft - 1 ELSE extrasLeft
\* The transport of e's current request was told to abort.
Cancelled(e) == abortControllerRef[e] # NULL /\ aborted[abortControllerRef[e]]

\* The step taken last: the operation, the exchange it belongs to (0: none),
\* the argument of the call ("-": none) and, if the step ended the exchange,
\* what was thrown into triggerRequest ("-": nothing), how its promise
\* settled and the calls of onError it made.
Ended(op, e, err, value, calls) ==
  [op |-> op, e |-> e, arg |-> "-",
   threw |-> err, returns |-> value, onError |-> calls]
Step(op, e) == Ended(op, e, "-", "-", <<>>)
Called(op, e, arg) == [Step(op, e) EXCEPT !.arg = arg]

\* The session as useChat returns it.
useChat ==
  /\ messages = InitialMessages
  /\ streamData = Undefined
  /\ loading = FALSE
  /\ error = NoError
  /\ input = InitialInput
  /\ store = Undefined
  /\ abortController = NULL
  /\ aborted = [c \in Exchanges |-> FALSE]
  /\ nStarted = 0
  /\ pc = [e \in Exchanges |-> "unused"]
  /\ round = [e \in Exchanges |-> 0]
  /\ chatRequest = [e \in Exchanges |-> <<>>]
  /\ previousMessages = [e \in Exchanges |-> <<>>]
  /\ existingData = [e \in Exchanges |-> Undefined]
  /\ abortControllerRef = [e \in Exchanges |-> NULL]
  /\ merged = [e \in Exchanges |-> <<>>]
  /\ sdata = [e \in Exchanges |-> <<>>]
  /\ nText = [e \in Exchanges |-> 0]
  /\ begun = [e \in Exchanges |-> <<>>]
  /\ issued = [e \in Exchanges |-> <<>>]
  /\ seenAtClear = <<>>
  /\ replaced = {}
  /\ last = Step("useChat", 0)

Init ==
  /\ useChat
  /\ deltas = TextDeltas
  /\ extrasLeft = MaxExtras

\* ------------------------------------------------------------ use-chat.ts
\* (the slip of leaving the store entry out)
MutateObservableOnly(data) ==
  /\ store' = store
  /\ messages' = data
\* const mutate = (data) => { store[key] = data; messages.set(data); }
mutate(data) ==
  /\ store' = Some(data)
  /\ messages' = data

\* The arguments triggerRequest's closure evaluates when processChatStream
\* calls it: get(messages), get(streamData) and abortController, all read
\* before getStreamedResponse's body runs mutate(chatRequest.messages).
\* (the slip of reading the messages after the request history was published)
PreviousMessagesAfterMutate(reqMessages) == reqMessages
PreviousMessagesArg(reqMessages) == messages
ExistingDataArg == streamData

\* getStreamedResponse up to the suspension in the transport call.
getStreamedResponse(e, reqMessages, controller) ==
  /\ chatRequest' = [chatRequest EXCEPT ![e] = reqMessages]
  /\ previousMessages' =
       [previousMessages EXCEPT ![e] = PreviousMessagesArg(reqMessages)]
  /\ existingData' = [existingData EXCEPT ![e] = ExistingDataArg]
  /\ abortControllerRef' = [abortControllerRef EXCEPT ![e] = controller]
  /\ mutate(reqMessages)
  /\ merged' = [merged EXCEPT ![e] = <<>>]
  /\ sdata' = [sdata EXCEPT ![e] = <<>>]
  /\ nText' = [nText EXCEPT ![e] = 0]
  /\ issued' = [issued EXCEPT ![e] = messages]
  /\ pc' = [pc EXCEPT ![e] = "streaming"]

\* What starting an exchange does to the signals of the controllers that
\* exist: nothing, `abortController = new AbortController()` only overwrites
\* the variable.
AbortedOnStart == aborted

\* triggerRequest, from its first line to the suspension in the transport.
triggerRequest(op, arg, reqMessages) ==
  /\ nStarted < MaxExchanges
  /\ Extra(InFlight # {} \/ op = "handleSubmit")
  /\ LET e == nStarted + 1 IN
       /\ nStarted' = e
       /\ error' = NoError
       /\ loading' = TRUE
       /\ abortController' = e
       /\ aborted' = AbortedOnStart
       /\ getStreamedResponse(e, reqMessages, e)
       /\ begun' = [begun EXCEPT ![e] = messages]
       /\ last' = Called(op, e, arg)
  /\ UNCHANGED <<streamData, round>>

\* (the slip of restoring the request history instead of the snapshot)
RestoreRequestHistory(e) == mutate(chatRequest[e])
\* restoreMessagesOnFailure() { mutate(previousMessages); }
restoreMessagesOnFailure(e) == mutate(previousMessages[e])

\* (the slip of publishing the response without the request history)
OnUpdateWithoutHistory(e, mergedNow, dataNow) ==
  /\ mutate(mergedNow)
  /\ streamData' = Some(OrEmpty(existingData[e]) \o dataNow)

\* onUpdate(merged, data)
onUpdate(e, mergedNow, dataNow) ==
  /\ mutate(chatRequest[e] \o mergedNow)
  /\ streamData' = Some(OrEmpty(existingData[e]) \o dataNow)

\* The closure of an exchange that ended is garbage.
Dropped(e) ==
  /\ pc' = [pc EXCEPT ![e] = "done"]
  /\ round' = [round EXCEPT ![e] = 0]
  /\ chatRequest' = [chatRequest EXCEPT ![e] = <<>>]
  /\ previousMessages' = [previousMessages EXCEPT ![e] = <<>>]
  /\ existingData' = [existingData EXCEPT ![e] = Undefined]
  /\ abortControllerRef' = [abortControllerRef EXCEPT ![e] = NULL]
  /\ merged' = [merged EXCEPT ![e] = <<>>]
  /\ sdata' = [sdata EXCEPT ![e] = <<>>]
  /\ nText' = [nText EXCEPT ![e] = 0]
  /\ begun' = [begun EXCEPT ![e] = <<>>]
  /\ issued' = [issued EXCEPT ![e] = <<>>]

\* (the slip of an early return that skips the cleanup)
LoadingKeptOnAbort(err) == IF err = AbortError THEN loading ELSE FALSE
\* `finally { loading.set(false); }`, on the way out with err (or none).
LoadingAfterFinally(err) == FALSE

\* triggerRequest after processChatStream returned.
triggerRequestReturns(op, e) ==
  /\ abortController' = NULL
  /\ loading' = LoadingAfterFinally(NoError)
  /\ last' = Ended(op, e, "-", "null", <<>>)
  /\ Dropped(e)
  /\ UNCHANGED error

\* The catch block of triggerRequest. onError is the application's: it
\* returns, or it throws and the rest of the block is skipped.
\* (the slip of leaving out `err instanceof Error`)
OnErrorAlways(err) == IF err # AbortError THEN <<err>> ELSE <<>>
OnErrorCalls(err) ==
  IF err # AbortError /\ IsError(err) THEN <<err>> ELSE <<>>
OnErrorOutcomes(err) ==
  IF OnErrorCalls(err) = <<>> THEN {"returns"} ELSE {"returns", "throws"}
\* (the slip of leaving out the AbortError branch)
ErrorAlwaysWritten(err, onErrorOutcome) ==
  IF onErrorOutcome = "throws" THEN error ELSE err
ErrorAfterCatch(err, onErrorOutcome) ==
  IF err = AbortError \/ onErrorOutcome = "throws" THEN error ELSE err
ControllerAfterCatch(err) == IF err = AbortError THEN NULL ELSE abortController
ResultAfterCatch(err, onErrorOutcome) ==
  IF err = AbortError THEN "null"
  ELSE IF onErrorOutcome = "throws" THEN "rejects" ELSE "undefined"

triggerRequestCatch(op, e, err) == \E onErrorOutcome \in OnErrorOutcomes(err) :
  /\ abortController' = ControllerAfterCatch(err)
  /\ error' = ErrorAfterCatch(err, onErrorOutcome)
  /\ loading' = LoadingAfterFinally(err)
  /\ last' = Ended(op, e, err, ResultAfterCatch(err, onErrorOutcome),
                   OnErrorCalls(err))
  /\ Dropped(e)

\* (the slip of generating an id for every message)
AppendAlwaysNewId(op, message) ==
  triggerRequest(
    op, message,
    Append(messages, [message EXCEPT !.id = generateId("u", nStarted + 1)]))

\* append(message)
append(op, message) ==
  LET withId == IF message.id = NoId
                THEN [message EXCEPT !.id = generateId("u", nStarted + 1)]
                ELSE message
  IN triggerRequest(op, message, Append(messages, withId))

Append1 ==
  /\ \E m \in AppendInputs : append("append", m)
  /\ UNCHANGED <<input, script>>

\* (the slip of resubmitting the whole conversation)
ReloadResubmitsAll ==
  /\ Len(messages) # 0
  /\ triggerRequest("reload", "-", messages)
  /\ UNCHANGED <<input, script>>

\* reload()
reload ==
  /\ Len(messages) # 0
  /\ IF messages[Len(messages)].role = "assistant"
     THEN triggerRequest("reload", "-", SubSeq(messages, 1, Len(messages) - 1))
     ELSE triggerRequest("reload", "-", messages)
  /\ UNCHANGED <<input, script>>

\* stop()
AbortedAfterStop(controller, signals) ==
  IF controller # NULL THEN [signals EXCEPT ![controller] = TRUE] ELSE signals
ControllerAfterStop(controller) ==
  IF controller # NULL THEN NULL ELSE controller

\* (the slip of rolling the messages back on stop)
StopRollsBack ==
  /\ aborted' = AbortedAfterStop(abortController, aborted)
  /\ abortController' = ControllerAfterStop(abortController)
  /\ last' = IF abortController # NULL THEN Step("stop", 0) ELSE last
  /\ IF abortController # NULL /\ pc[abortController] = "streaming"
     THEN mutate(previousMessages[abortController])
     ELSE UNCHANGED <<messages, store>>
  /\ UNCHANGED <<streamData, loading, error, input, script, pc>>
  /\ UNCHANGED <<counters, requestVars>>

\* (the slip of resetting the error on stop)
StopClearsError ==
  /\ aborted' = AbortedAfterStop(abortController, aborted)
  /\ abortController' = ControllerAfterStop(abortController)
  /\ last' = IF abortController # NULL THEN Step("stop", 0) ELSE last
  /\ error' = NoError
  /\ UNCHANGED <<messages, streamData, loading, input, script, store, pc>>
  /\ UNCHANGED <<counters, requestVars>>

stop ==
  /\ aborted' = AbortedAfterStop(abortController, aborted)
  /\ abortController' = ControllerAfterStop(abortController)
  /\ last' = IF abortController # NULL THEN Step("stop", 0) ELSE last
  /\ UNCHANGED <<messages, streamData, loading, error, input, script, store,
                 pc>>
  /\ UNCHANGED <<counters, requestVars>>

\* (the slip of stopping the exchange in flight on replacement)
SetMessagesStops(list) ==
  /\ Extra(TRUE)
  /\ mutate(list)
  /\ last' = Called("setMessages", 0, list)
  /\ aborted' = AbortedAfterStop(abortController, aborted)
  /\ abortController' = ControllerAfterStop(abortController)
  /\ replaced' = replaced \cup InFlight
  /\ UNCHANGED <<streamData, loading, error, input, deltas, seenAtClear,
                 nStarted, pc>>
  /\ UNCHANGED requestVars

\* setMessages(messages)
setMessages(list) ==
  /\ Extra(TRUE)
  /\ mutate(list)
  /\ last' = Called("setMessages", 0, list)
  /\ replaced' = replaced \cup InFlight
  /\ UNCHANGED <<streamData, loading, error, input, deltas, seenAtClear,
                 abortController, aborted, nStarted, pc>>
  /\ UNCHANGED requestVars

SetMessages == \E list \in MessageLists : setMessages(list)

\* (the slip of clearing the input before the message is appended)
HandleSubmitClearsFirst ==
  IF input = ""
  THEN /\ last' = Step("handleSubmit on empty input", 0)
       /\ UNCHANGED <<messages, streamData, loading, error, input, script,
                      store, abortController, aborted, pc>>
       /\ UNCHANGED <<counters, requestVars>>
  ELSE /\ input' = ""
       /\ seenAtClear' = messages
       /\ append("handleSubmit", Msg(NoId, "user", input))
       /\ UNCHANGED <<deltas, replaced>>

\* handleSubmit(e)
handleSubmit ==
  IF input = ""
  THEN /\ last' = Step("handleSubmit on empty input", 0)
       /\ UNCHANGED <<messages, streamData, loading, error, input, script,
                      store, abortController, aborted, pc>>
       /\ UNCHANGED <<counters, requestVars>>
  ELSE /\ append("handleSubmit", Msg(NoId, "user", input))
       /\ input' = ""
       /\ seenAtClear' = messages'
       /\ UNCHANGED <<deltas, replaced>>

\* useChat called again with the same api and id, once the earlier session
\* has no exchange in flight: new observables and a new abortController
\* variable, the same key of the module's store.
useChatAgain ==
  /\ InFlight = {}
  /\ Extra(TRUE)
  /\ messages' = InitialMessages
  /\ streamData' = Undefined
  /\ loading' = FALSE
  /\ error' = NoError
  /\ input' = InitialInput
  /\ abortController' = NULL
  /\ last' = Step("useChat", 0)
  /\ UNCHANGED <<store, aborted, nStarted, pc, script>>
  /\ UNCHANGED requestVars

\* ------------------------------------------- the transport (callChatApi)
\* A "text" event: appends to the content of the open assistant message of
\* this request; if none is open, one is created with a fresh id.
ApplyText(e, list, delta) ==
  IF Len(list) = 0 THEN <<Msg(generateId("a", e), "assistant", delta)>>
  ELSE [list EXCEPT ![Len(list)].content = @ \o delta]

\* A "tool-call-delta" event: accumulates into the tool-call record of the
\* open assistant message.
ApplyToolCall(e, list) ==
  IF Len(list) = 0
  THEN <<[Msg(generateId("a", e), "assistant", "") EXCEPT !.tool_calls = TRUE]>>
  ELSE [list EXCEPT ![Len(list)].tool_calls = TRUE]

HasToolCall(list) == \E i \in 1..Len(list) : list[i].tool_calls

\* The transport reads on while it has not been told to abort.
Reading(e) ==
  /\ pc[e] = "streaming"
  /\ ~Cancelled(e)

\* One message event of the stream has been reduced: update(merged, data).
StreamMessageEvent(op, e, mergedNow) ==
  /\ Reading(e)
  /\ Extra(op = "tool-call-delta")
  /\ merged' = [merged EXCEPT ![e] = mergedNow]
  /\ onUpdate(e, mergedNow, sdata[e])
  /\ last' = Step(op, e)
  /\ UNCHANGED <<loading, error, input, script, abortController, aborted, pc>>
  /\ UNCHANGED <<round, chatRequest, previousMessages, existingData,
                 abortControllerRef, sdata, begun, issued>>
  /\ UNCHANGED nStarted

StreamText == \E e \in Exchanges :
  /\ nText[e] < Len(deltas)
  /\ ~HasToolCall(merged[e])
  /\ nText' = [nText EXCEPT ![e] = @ + 1]
  /\ StreamMessageEvent(
       "text", e, ApplyText(e, merged[e], deltas[nText[e] + 1]))

StreamToolCall == \E e \in Exchanges :
  /\ Len(merged[e]) = 0
  /\ StreamMessageEvent("tool-call-delta", e, ApplyToolCall(e, merged[e]))
  /\ UNCHANGED nText

\* A "data" event: its payload is appended to the request's data.
StreamDataEvent == \E e \in Exchanges :
  /\ Reading(e)
  /\ Extra(TRUE)
  /\ sdata' = [sdata EXCEPT ![e] = Append(@, DataPayload)]
  /\ onUpdate(e, merged[e], Append(sdata[e], DataPayload))
  /\ last' = Step("data", e)
  /\ UNCHANGED <<loading, error, input, script, abortController, aborted, pc>>
  /\ UNCHANGED <<round, chatRequest, previousMessages, existingData,
                 abortControllerRef, merged, nText, begun, issued>>
  /\ UNCHANGED nStarted

\* The request fails (the connection, the response status or a malformed
\* chunk): the transport restores the messages and throws; the error
\* reaches triggerRequest's catch in the same run.
TransportFails == \E e \in Exchanges :
  /\ Reading(e)
  /\ restoreMessagesOnFailure(e)
  /\ triggerRequestCatch(
       "fails", e, TransportError(Len(merged[e]) + Len(sdata[e])))
  /\ UNCHANGED <<streamData, input, script, aborted>>
  /\ UNCHANGED counters

\* onResponse or onFinish, called by the transport, throws: nothing is
\* restored.
CallbackFails == \E e \in Exchanges :
  /\ Reading(e)
  /\ triggerRequestCatch("callback throws", e, ThrownValue)
  /\ UNCHANGED <<messages, store, streamData, input, script, aborted>>
  /\ UNCHANGED counters

\* The transport was told to abort: it throws an AbortError and restores
\* nothing.
TransportAborts == \E e \in Exchanges :
  /\ pc[e] = "streaming"
  /\ Cancelled(e)
  /\ triggerRequestCatch("aborts", e, AbortError)
  /\ UNCHANGED <<messages, store, streamData, input, script, aborted>>
  /\ UNCHANGED counters

\* ------------------------------------ the follow-up loop (processChatStream)
\* The stream finished and the response holds no tool call:
\* processChatStream returns.
FinishWithoutToolCall == \E e \in Exchanges :
  /\ Reading(e)
  /\ ~HasToolCall(merged[e])
  /\ triggerRequestReturns("finish", e)
  /\ UNCHANGED <<messages, store, streamData, input, script, aborted>>
  /\ UNCHANGED counters

\* The stream finished with a tool call: processChatStream awaits the hook.
FinishWithToolCall == \E e \in Exchanges :
  /\ Reading(e)
  /\ HasToolCall(merged[e])
  /\ pc' = [pc EXCEPT ![e] = "hook"]
  /\ last' = Step("tool call", e)
  /\ UNCHANGED <<messages, streamData, loading, error, input, script, store,
                 abortController, aborted>>
  /\ UNCHANGED <<counters, requestVars>>

\* The hook resolved the call without asking for another request.
HookConcludes == \E e \in Exchanges :
  /\ pc[e] = "hook"
  /\ triggerRequestReturns("hook returns", e)
  /\ UNCHANGED <<messages, store, streamData, input, script, aborted>>
  /\ UNCHANGED counters

\* The hook returned a request (the current messages and the tool result):
\* updateChatRequest, then getStreamedResponse again with what the session's
\* variables hold now.
HookFollowUp == \E e \in Exchanges :
  /\ pc[e] = "hook"
  /\ round' = [round EXCEPT ![e] = @ + 1]
  /\ getStreamedResponse(
       e, Append(messages, Msg(generateId("t", e), "tool", "ok")),
       abortController)
  /\ last' = Step("follow-up", e)
  /\ UNCHANGED <<streamData, loading, error, input, script, abortController,
                 aborted,
                 nStarted, extrasLeft, begun>>

\* The hook threw.
HookFails == \E e \in Exchanges :
  /\ pc[e] = "hook"
  /\ triggerRequestCatch("hook throws", e, ToolExecutionError)
  /\ UNCHANGED <<messages, store, streamData, input, script, aborted>>
  /\ UNCHANGED counters

Next ==
  \/ Append1
  \/ reload
  \/ stop
  \/ SetMessages
  \/ handleSubmit
  \/ useChatAgain
  \/ StreamText
  \/ StreamToolCall
  \/ StreamDataEvent
  \/ TransportFails
  \/ CallbackFails
  \/ TransportAborts
  \/ FinishWithoutToolCall
  \/ FinishWithToolCall
  \/ HookConcludes
  \/ HookFollowUp
  \/ HookFails

Spec == Init /\ [][Next]_vars

\* One exchange at a time and nothing but text in its response, whatever
\* the deltas are.
InitText ==
  /\ useChat
  /\ deltas \in TextScripts
  /\ extrasLeft = MaxExtras
AppendWhenIdle == InFlight = {} /\ Append1
ReloadWhenIdle == InFlight = {} /\ reload
NextText ==
  \/ AppendWhenIdle
  \/ ReloadWhenIdle
  \/ StreamText
  \/ FinishWithoutToolCall
SpecText == InitText /\ [][NextText]_vars

\* Appends and responses of text and data only, with one more of the events
\* MaxExtras bounds: an exchange started while another is in flight, and a
\* data event.
InitData ==
  /\ useChat
  /\ deltas = TextDeltas
  /\ extrasLeft = MaxExtras + 1
NextData ==
  \/ Append1
  \/ StreamText
  \/ StreamDataEvent
  \/ FinishWithoutToolCall
SpecData == InitData /\ [][NextData]_vars

\* ------------------------------------------------------------------ claims
StartOps == {"append", "reload", "handleSubmit"}
\* Exchange e is in flight and an exchange was started after it.
Superseded(e) == e \in InFlight /\ e < nStarted
\* The step taken is exchange e's own (an event of its transport, its hook
\* or its follow-up), not a call of the session's API.
OwnStep(e) == last'.e = e /\ e \in InFlight
\* The step taken ended an exchange with a failure that is no abort.
Failed == last.threw \notin {"-", AbortError}

\* C1: starting an exchange aborts the handle of every exchange still in
\* flight, so at most one exchange that is not cancelled is in flight.
C1_PreviousExchangeCancelled ==
  /\ last.op \in StartOps => \A e \in InFlight \ {last.e} : Cancelled(e)
  /\ Cardinality({e \in InFlight : ~Cancelled(e)}) <= 1

\* C2: once a later exchange has started, no step of a superseded exchange
\* changes the messages or the stream data.
C2_SupersededExchangeInert ==
  [][\A a \in Exchanges :
       Superseded(a) /\ OwnStep(a) => UNCHANGED <<messages, streamData>>]_vars

C5_AbortIsSilent ==
  [][last'.threw = AbortError =>
       /\ error' = error
       /\ last'.onError = <<>>
       /\ abortController' = NULL
       /\ last'.returns = "null"]_vars

\* A stopped exchange has resolved.
C5_StoppedExchangeResolved ==
  /\ last.op = "aborts"
  /\ last.returns = "null"
  /\ pc[last.e] = "done"

\* C6: stop() rolls nothing back, and an exchange cancelled mid-stream
\* applies nothing more: the step that resolves it leaves the messages as
\* they are.
C6_StopKeepsPartialResponse ==
  [][/\ last'.op = "stop" => UNCHANGED <<messages, store>>
     /\ \A e \in Exchanges :
          OwnStep(e) /\ pc[e] = "streaming" /\ Cancelled(e)
            => UNCHANGED <<messages, store>>]_vars

\* A stopped exchange has resolved and the partial response is still there.
C6_PartialResponseKept ==
  /\ last.op = "aborts"
  /\ Len(messages) > 0
  /\ messages[Len(messages)].role = "assistant"
  /\ messages[Len(messages)].content = "Hel"

\* C7: however an exchange ends, it ends with loading false.
C7_LoadingCleared == last.returns # "-" => loading = FALSE

\* An exchange ended with onError itself throwing, and loading is false.
C7_EndedByThrowingCallback ==
  /\ last.returns = "rejects"
  /\ loading = FALSE

\* C8: loading is true exactly when one exchange is in flight, and false
\* exactly when none is.
C8_LoadingIffOneInFlight ==
  /\ loading <=> Cardinality(InFlight) = 1
  /\ ~loading <=> InFlight = {}

\* C9: after stop(), the handle handed to the transport of every exchange
\* in flight is aborted.
C9_StopAbortsInFlight ==
  last.op = "stop" => \A e \in InFlight : Cancelled(e)

\* C10: stop() with no exchange in flight leaves messages, stream data,
\* loading, error and input as they are, and a second stop() changes
\* nothing the first left.
StopIsIdempotent ==
  LET controller == ControllerAfterStop(abortController)
      signals == AbortedAfterStop(abortController, aborted)
  IN /\ ControllerAfterStop(controller) = controller
     /\ AbortedAfterStop(controller, signals) = signals
C10_StopWhenIdle ==
  /\ [][last'.op = "stop" /\ InFlight = {} =>
          UNCHANGED <<messages, streamData, loading, error, input>>]_vars
  /\ []StopIsIdempotent

\* stop() was called with no exchange in flight, after one had failed.
C10_StoppedWhenIdle ==
  /\ last.op = "stop"
  /\ InFlight = {}
  /\ error # NoError

\* C11: reload() on a conversation that ends with an assistant message
\* requests the conversation without exactly that message; on any other
\* conversation it requests the conversation as it is.
C11_ReloadHistory ==
  last.op = "reload" =>
    LET H == begun[last.e]
        req == chatRequest[last.e]
    IN IF H[Len(H)].role = "assistant"
       THEN H = Append(req, H[Len(H)])
       ELSE H = req

\* reload() on the initial conversation dropped the assistant's answer.
C11_ReloadDroppedAssistant ==
  /\ last.op = "reload"
  /\ begun[last.e] = InitialMessages
  /\ chatRequest[last.e] = <<Msg("u0", "user", "Hi")>>

\* C12: append(message) keeps a supplied id and gives a message without one
\* an id no message of the conversation has; the request history is the
\* conversation followed by that message, and the messages observable holds
\* it once the exchange has started.
C12_AppendStartsExchange ==
  last.op \in {"append", "handleSubmit"} =>
    LET H == begun[last.e]
        req == chatRequest[last.e]
        m == req[Len(req)]
    IN /\ Len(req) > 0
       /\ req = Append(H, m)
       /\ IF last.arg.id = NoId
          THEN /\ m.id # NoId
               /\ m = [last.arg EXCEPT !.id = m.id]
               /\ \A i \in 1..Len(H) : H[i].id # m.id
          ELSE m = last.arg
       /\ messages = req

\* A message without an id was appended, and the conversation ends with it
\* under a generated id.
C12_AppendedWithGeneratedId ==
  /\ last.op \in {"append", "handleSubmit"}
  /\ last.arg.id = NoId
  /\ messages[Len(messages)].id # NoId
  /\ messages[Len(messages)].content = last.arg.content

\* C13: setMessages(list) sets the messages to exactly list and leaves the
\* exchanges in flight, their request histories, their cancellation handles,
\* the loading flag and the error as they are.
C13_SetMessagesFrame ==
  [][last'.op = "setMessages" =>
       /\ messages' = last'.arg
       /\ UNCHANGED <<pc, chatRequest, abortControllerRef, abortController,
                      aborted, loading, error>>]_vars

\* The conversation was emptied while an exchange was in flight.
C13_ReplacedWhileInFlight ==
  /\ last.op = "setMessages"
  /\ InFlight # {}
  /\ messages = <<>>
  /\ loading

\* C14: when an exchange that ran alone finishes after text deltas only, the
\* conversation is the request history followed by one assistant message
\* whose content is the deltas received, concatenated in arrival order; and
\* loading is true exactly from the start of the exchange to its end.
RECURSIVE Concat(_)
Concat(strings) ==
  IF strings = <<>> THEN "" ELSE Head(strings) \o Concat(Tail(strings))
TextOutcome(e) ==
  LET n == Len(chatRequest[e]) IN
    /\ Len(messages') = n + 1
    /\ SubSeq(messages', 1, n) = chatRequest[e]
    /\ messages'[n + 1].role = "assistant"
    /\ messages'[n + 1].content = Concat(SubSeq(deltas, 1, nText[e]))
C14_TextConcatenated ==
  /\ [][\A e \in Exchanges :
          OwnStep(e) /\ last'.op = "finish" /\ nText[e] > 0
            => TextOutcome(e)]_vars
  /\ [](loading <=> InFlight # {})

\* The conversation [user: "Hi"] was answered with "Hel", "lo!" and finish.
C14_HelloStreamed ==
  /\ last.op = "finish"
  /\ deltas = <<"Hel", "lo!">>
  /\ Len(messages) = 2
  /\ messages[1] = Msg("u0", "user", "Hi")
  /\ messages[2].role = "assistant"
  /\ messages[2].content = "Hello!"
  /\ loading = FALSE
  /\ error = NoError

\* C15: every stream update yields stream data that has the session's
\* previous stream data as a prefix, and a data event changes no response
\* message: the messages stay the request history and the response so far.
IsPrefix(short, long) ==
  /\ Len(short) <= Len(long)
  /\ SubSeq(long, 1, Len(short)) = short
StreamUpdates == {"text", "tool-call-delta", "data"}
C15_StreamDataGrows ==
  [][\A e \in Exchanges :
       OwnStep(e) /\ last'.op \in StreamUpdates =>
         /\ IsPrefix(OrEmpty(streamData), OrEmpty(streamData'))
         /\ last'.op = "data" =>
              /\ merged'[e] = merged[e]
              /\ messages' = chatRequest[e] \o merged[e]]_vars

\* C16: a session constructed with the key of an earlier session starts with
\* the message list the store holds for that key.
C16_Rehydrated ==
  last.op = "useChat" /\ store.defined => messages = store.value

\* C17: the start of an exchange leaves the error undefined, and an exchange
\* that ends successfully ends with the error undefined, as it has been
\* since the exchange started.
C17_ErrorClearedDuringExchange ==
  [][/\ nStarted' # nStarted => error' = NoError
     /\ \A e \in Exchanges :
          OwnStep(e) /\ last'.threw = "-" /\ last'.returns = "null"
            => error = NoError /\ error' = NoError]_vars

\* C18: handleSubmit with input starts exactly one exchange, by appending a
\* user message with the input as its content, and sets the input to the
\* empty string when the conversation holds that message; handleSubmit with
\* empty input starts nothing and leaves messages, loading, error and input
\* as they are.
C18_HandleSubmit ==
  [][/\ last'.op = "handleSubmit" =>
          LET req == chatRequest'[last'.e]
              m == req[Len(req)]
          IN /\ input # ""
             /\ nStarted' = nStarted + 1
             /\ req = Append(messages, m)
             /\ m.role = "user"
             /\ m.content = input
             /\ input' = ""
             /\ seenAtClear' = req
     /\ last'.op = "handleSubmit on empty input" =>
          /\ input = ""
          /\ UNCHANGED <<messages, store, loading, error, input, nStarted, pc,
                         seenAtClear>>]_vars

\* The form was submitted with the input "Hi", and then once more.
C18_SubmittedTwice ==
  /\ last.op = "handleSubmit on empty input"
  /\ input = ""
  /\ \E i \in 1..Len(seenAtClear) :
        /\ seenAtClear[i].role = "user"
        /\ seenAtClear[i].content = InitialInput
        /\ seenAtClear[i].id \notin {"u0", "m1"}

\* C19: every request, an exchange's first and each follow-up, takes as its
\* restore point the messages read before it publishes its request history:
\* for an append that is the conversation without the appended message; and
\* a failing request sets the messages to its restore point.
C19_RestorePointPerRequest ==
  [][\A e \in Exchanges :
       /\ last'.e = e /\ nStarted' # nStarted =>
            previousMessages'[e] = messages
       /\ last'.e = e /\ last'.op \in {"append", "handleSubmit"} =>
            /\ chatRequest'[e] # previousMessages'[e]
            /\ IsPrefix(previousMessages'[e], chatRequest'[e])
            /\ Len(chatRequest'[e]) = Len(previousMessages'[e]) + 1
       /\ OwnStep(e) /\ last'.op = "follow-up" =>
            previousMessages'[e] = messages
       /\ OwnStep(e) /\ last'.op = "fails" =>
            messages' = previousMessages[e]]_vars

\* The follow-up request of the only exchange failed: the conversation ends
\* with the assistant's tool call, as it did when the follow-up was issued.
C19_FollowUpRestored ==
  /\ last.op = "fails"
  /\ nStarted = 1
  /\ Len(messages) > Len(InitialMessages)
  /\ messages[Len(messages)].role = "assistant"
  /\ messages[Len(messages)].tool_calls

\* C20: right after every stream update of an exchange, the messages and the
\* store entry are the exchange's request history followed by the response
\* merged so far, also when setMessages was called since the exchange began.
C20_UpdateOverwrites ==
  last.op \in StreamUpdates =>
    /\ messages = chatRequest[last.e] \o merged[last.e]
    /\ store = Some(chatRequest[last.e] \o merged[last.e])

\* setMessages emptied the conversation during an exchange, and the next
\* text delta brought the request history and the response back.
C20_ReplacementOverwritten ==
  /\ last.op = "text"
  /\ last.e \in replaced
  /\ Len(messages) > Len(chatRequest[last.e])
  /\ Len(chatRequest[last.e]) > 0
====
